---- MODULE Spec2Model ----
(***************************************************************************)
(* Model of pages/marine.py: the East African fish migration tracker.      *)
(*                                                                         *)
(* Units.  The source works in floating point; the model uses fixed point: *)
(*   latitude / longitude   thousandths of a degree                        *)
(*   speed                  hundredths of a km/h                           *)
(*   confidence             whole points                                   *)
(*   direction              whole degrees                                  *)
(*   time                   whole minutes since the start of a year; a     *)
(*                          month is taken as 30 days                      *)
(* np.random.seed(42) fixes the stream of the global numpy generator.  The *)
(* stream itself is left open: it is chosen once in Init from a family of  *)
(* streams and is the same for every call, as the fixed seed makes it.     *)
(* A draw is a percentage u of the way from the low to the high end.       *)
(***************************************************************************)
EXTENDS Integers, Naturals, Sequences, FiniteSets, TLC

VARIABLES now, events, stream, rng_pos, db, gen, commits, committed_ctx, batches,
          cache_s, cache_m, render, session, dc_in, dc_out

vars == <<now, events, stream, rng_pos, db, gen, commits, committed_ctx, batches,
          cache_s, cache_m, render, session, dc_in, dc_out>>

(***************************************************************************)
(* Bounds of the model                                                     *)
(***************************************************************************)
MaxCount == 2
MaxEvents == 3
MaxTurns == 2

(***************************************************************************)
(* Program constants                                                       *)
(***************************************************************************)
MonthMinutes == 43200
TTL == 5
CardinalStep == 90
FullTurn == 16 * CardinalStep

UVals == <<0, 13, 30, 50, 99>>
StreamMod == Len(UVals)
TickSteps == {10, 3 * MonthMinutes}
InitNows == {11 * MonthMinutes}
TimeWindows == {10, 60, 120}

east_african_species == <<"Yellowfin Tuna", "Kingfish", "Black Marlin", "Sailfish",
                          "Dorado", "Barracuda", "Skipjack Tuna", "Wahoo">>

\* the page calls generate_east_african_data() with its defaults, which give
\* schools_count and migrations_count the same value
CallCounts == {<<n, n>> : n \in 1..MaxCount}

NoRows == << >>

(***************************************************************************)
(* The clock                                                               *)
(***************************************************************************)
MonthOf(t) == ((t \div MonthMinutes) % 12) + 1

is_northeast_monsoon(month) == 1 <= month /\ month <= 3

is_southeast_monsoon(month) == 6 <= month /\ month <= 9

SeasonMode(month) ==
    IF is_northeast_monsoon(month) THEN "NE"
    ELSE IF is_southeast_monsoon(month) THEN "SE" ELSE "TRANSITION"

(***************************************************************************)
(* numpy's global generator                                                *)
(***************************************************************************)
SeedKeepsPosition(pos) == pos

\* np.random.seed(42): the stream restarts at its first draw
Seed(pos) == 0

Draw(i) == UVals[((stream.a * i + stream.b) % StreamMod) + 1]

\* np.random.uniform(low, high): low + (high - low) * u, also when high < low
Uniform(low, high, u) ==
    IF high >= low THEN low + ((high - low) * u) \div 100
    ELSE low - ((low - high) * u) \div 100

\* np.random.randint(low, high): an integer in low .. high - 1
RandInt(low, high, u) == low + ((high - low) * u) \div 100

(***************************************************************************)
(* Trigonometry in thousandths (Bhaskara's rational approximation, exact   *)
(* at the multiples of 90 degrees)                                         *)
(***************************************************************************)
SinHalf(d) == (4000 * d * (180 - d)) \div (40500 - d * (180 - d))

Sin1000(d) ==
    LET x == d % 360
    IN IF x <= 180 THEN SinHalf(x) ELSE 0 - SinHalf(x - 180)

Cos1000(d) == Sin1000(d + 90)

\* x * t / 1000 rounded toward zero
Scale(x, t) == IF t >= 0 THEN (x * t) \div 1000 ELSE 0 - ((x * (0 - t)) \div 1000)

(***************************************************************************)
(* The store: schema and transactions                                      *)
(***************************************************************************)
SchoolsCheck(r) ==
    /\ r.lat >= -90000 /\ r.lat <= 90000
    /\ r.lon >= -180000 /\ r.lon <= 180000
    /\ r.confidence >= 0 /\ r.confidence <= 100

MigrationsCheck(r) ==
    /\ r.latitude >= -90000 /\ r.latitude <= 90000
    /\ r.longitude >= -180000 /\ r.longitude <= 180000
    /\ r.speed >= 0
    /\ r.direction >= 0 /\ r.direction <= 360
    /\ r.target_latitude >= -90000 /\ r.target_latitude <= 90000
    /\ r.target_longitude >= -180000 /\ r.target_longitude <= 180000

EmptyDb == [fish_schools |-> NoRows, migrations |-> NoRows, seq_s |-> 0, seq_m |-> 0]

\* the call that wrote the committed batch: its clock readings, its counts and
\* the keys that were in use before it
NoCall ==
    [current_month |-> 0, base_time |-> 0, schools_count |-> 0, migrations_count |-> 0,
     seq_s |-> 0, seq_m |-> 0]

RollbackKeepsWrites(committed, working) == working

\* what the database file holds after the writer's transaction is rolled back
Rollback(committed, working) == committed

ReadUncommitted(committed, working) == working

\* what a SELECT on another connection reads while a writer's transaction is open
ReadCommitted(committed, working) == committed

(***************************************************************************)
(* generate_east_african_data: the values it draws.  p is the position of  *)
(* the generator's stream at which the draws of a block begin.             *)
(***************************************************************************)
lats(sc, p) == [j \in 1..sc |-> Uniform(-15000, 5000, Draw(p + j - 1))]

lons(sc, p) == [j \in 1..sc |-> Uniform(39000, 45000, Draw(p + sc + j - 1))]

confidences(sc, p) == [j \in 1..sc |-> Uniform(50, 100, Draw(p + 2 * sc + j - 1))]

SchoolRows(sc, p) ==
    [j \in 1..sc |-> [lat |-> lats(sc, p)[j], lon |-> lons(sc, p)[j],
                      confidence |-> confidences(sc, p)[j]]]

species(mc, p) == [j \in 1..mc |-> east_african_species[RandInt(0, 8, Draw(p + j - 1)) + 1]]

base_lats(mc, p) == [j \in 1..mc |-> Uniform(-15000, 5000, Draw(p + mc + j - 1))]

base_lons(mc, p) == [j \in 1..mc |-> Uniform(39000, 45000, Draw(p + 2 * mc + j - 1))]

SpeedOf(s, u) ==
    IF s \in {"Yellowfin Tuna", "Skipjack Tuna"} THEN Uniform(400, 700, u)
    ELSE IF s \in {"Black Marlin", "Sailfish"} THEN Uniform(600, 1000, u)
    ELSE IF s = "Wahoo" THEN Uniform(500, 800, u)
    ELSE Uniform(200, 500, u)

speeds(mc, p) == [j \in 1..mc |-> SpeedOf(species(mc, p)[j], Draw(p + 3 * mc + j - 1))]

\* the heading appended to directions before the jitter is added
BaseDirection(month, s, u) ==
    IF is_northeast_monsoon(month) THEN
        IF s \in {"Yellowfin Tuna", "Skipjack Tuna", "Dorado"} THEN Uniform(150, 210, u)
        ELSE IF s \in {"Kingfish", "Barracuda"} THEN Uniform(120, 240, u)
        ELSE Uniform(90, 270, u)
    ELSE IF is_southeast_monsoon(month) THEN
        IF s \in {"Black Marlin", "Sailfish", "Wahoo"} THEN Uniform(330, 30, u)
        ELSE IF s \in {"Yellowfin Tuna", "Kingfish"} THEN Uniform(300, 60, u)
        ELSE Uniform(270, 90, u)
    ELSE Uniform(0, 360, u)

base_directions(mc, p, month) ==
    [j \in 1..mc |-> BaseDirection(month, species(mc, p)[j], Draw(p + 4 * mc + 2 * (j - 1)))]

JitterNoWrap(d, u) == d + Uniform(-20, 20, u)

\* directions[-1] = (directions[-1] + np.random.uniform(-20, 20)) % 360
Jitter(d, u) == (d + Uniform(-20, 20, u)) % 360

directions(mc, p, month) ==
    [j \in 1..mc |-> Jitter(base_directions(mc, p, month)[j],
                            Draw(p + 4 * mc + 2 * (j - 1) + 1))]

DeltaTimes20(speed) == speed * 200

\* delta = speed / 20 degrees, in thousandths of a degree
delta(speed) == speed \div 2

target_lat(lat, speed, direction) == lat + Scale(delta(speed), Sin1000(direction))

target_lon(lon, speed, direction) == lon + Scale(delta(speed), Cos1000(direction))

TimestampsAhead(mc, p, base_time) ==
    [j \in 1..mc |-> base_time + RandInt(0, 120, Draw(p + 6 * mc + j - 1))]

\* base_time - pd.Timedelta(minutes=np.random.randint(0, 120))
timestamps(mc, p, base_time) ==
    [j \in 1..mc |-> base_time - RandInt(0, 120, Draw(p + 6 * mc + j - 1))]

MigrationRows(mc, p, month, base_time) ==
    [j \in 1..mc |->
        [species |-> species(mc, p)[j],
         latitude |-> base_lats(mc, p)[j],
         longitude |-> base_lons(mc, p)[j],
         speed |-> speeds(mc, p)[j],
         direction |-> directions(mc, p, month)[j],
         target_latitude |-> target_lat(base_lats(mc, p)[j], speeds(mc, p)[j],
                                        directions(mc, p, month)[j]),
         target_longitude |-> target_lon(base_lons(mc, p)[j], speeds(mc, p)[j],
                                         directions(mc, p, month)[j]),
         timestamp |-> timestamps(mc, p, base_time)[j]]]

\* a row as stored: the AUTOINCREMENT key comes first
WithId(r, id) == [x \in {"id"} \cup DOMAIN r |-> IF x = "id" THEN id ELSE r[x]]

\* a row without its key
Content(r) == [x \in (DOMAIN r) \ {"id"} |-> r[x]]

Contents(rows) == [j \in 1..Len(rows) |-> Content(rows[j])]

InsertAll(rows, seq) == [j \in 1..Len(rows) |-> WithId(rows[j], seq + j)]

(***************************************************************************)
(* generate_east_african_data: the call, statement by statement            *)
(***************************************************************************)
\* txn is the database as the writer's connection sees it
GenIdle ==
    [pc |-> "idle", schools_count |-> 0, migrations_count |-> 0, txn |-> EmptyDb,
     snapshot |-> EmptyDb, batch |-> NoRows, base_dirs |-> NoRows, k |-> 0,
     current_month |-> 0, base_time |-> 0, outcome |-> "none", error |-> "",
     error_shown |-> FALSE]

GenInProgress == gen.pc \in {"begun", "del_s", "del_m", "ins_s", "computed"}

\* the writer's transaction holds changes that are not committed
TxnOpen == GenInProgress /\ gen.txn # db

GenUnchanged == UNCHANGED <<now, stream, cache_s, cache_m, render, session, dc_in, dc_out>>

\* except: conn.rollback(); st.error(...); raise
Raise(e) ==
    [gen EXCEPT !.pc = "idle", !.outcome = "raised", !.error = e, !.error_shown = TRUE,
                !.txn = Rollback(db, gen.txn)]

\* the sidebar button: the call opens its connection and begins the transaction
ButtonClick(sc, mc) ==
    /\ gen.pc = "idle"
    /\ events < MaxEvents
    /\ events' = events + 1
    /\ gen' = [GenIdle EXCEPT !.pc = "begun", !.schools_count = sc, !.migrations_count = mc,
                              !.txn = db, !.snapshot = db]
    /\ UNCHANGED <<db, rng_pos, commits, committed_ctx, batches>>
    /\ GenUnchanged

DeleteSchools ==
    /\ gen.pc = "begun"
    /\ gen' = [gen EXCEPT !.pc = "del_s", !.txn.fish_schools = NoRows]
    /\ UNCHANGED <<db, rng_pos, events, commits, committed_ctx, batches>>
    /\ GenUnchanged

DeleteMigrationsKeepsRows ==
    /\ gen.pc = "del_s"
    /\ gen' = [gen EXCEPT !.pc = "del_m"]
    /\ UNCHANGED <<db, rng_pos, events, commits, committed_ctx, batches>>
    /\ GenUnchanged

DeleteMigrations ==
    /\ gen.pc = "del_s"
    /\ gen' = [gen EXCEPT !.pc = "del_m", !.txn.migrations = NoRows]
    /\ UNCHANGED <<db, rng_pos, events, commits, committed_ctx, batches>>
    /\ GenUnchanged

\* np.random.seed(42), the three draws of the schools and their executemany
InsertSchools ==
    /\ gen.pc = "del_m"
    /\ LET p == Seed(rng_pos)
           sc == gen.schools_count
           rows == SchoolRows(sc, p)
       IN IF sc < 0
          THEN \* np.random.uniform(-15, 5, schools_count): negative dimensions
               /\ rng_pos' = p
               /\ gen' = Raise("ValueError")
               /\ db' = Rollback(db, gen.txn)
          ELSE /\ rng_pos' = p + 3 * sc
               /\ IF \A j \in 1..sc : SchoolsCheck(rows[j])
                  THEN /\ gen' = [gen EXCEPT !.pc = "ins_s",
                                             !.txn.fish_schools = InsertAll(rows, gen.txn.seq_s),
                                             !.txn.seq_s = gen.txn.seq_s + sc]
                       /\ db' = db
                  ELSE /\ gen' = Raise("IntegrityError")
                       /\ db' = Rollback(db, gen.txn)
    /\ UNCHANGED <<events, commits, committed_ctx, batches>>
    /\ GenUnchanged

\* lines 81-147: the month, the draws of the migrations, the base time
ComputeMigrations ==
    /\ gen.pc = "ins_s"
    /\ LET mc == gen.migrations_count
           month == MonthOf(now)
       IN IF mc < 0
          THEN \* np.random.choice(east_african_species, migrations_count)
               /\ gen' = [Raise("ValueError") EXCEPT !.current_month = month]
               /\ db' = Rollback(db, gen.txn)
               /\ rng_pos' = rng_pos
          ELSE /\ gen' = [gen EXCEPT !.pc = "computed",
                                     !.current_month = month,
                                     !.base_time = now,
                                     !.base_dirs = base_directions(mc, rng_pos, month),
                                     !.batch = MigrationRows(mc, rng_pos, month, now)]
               /\ db' = db
               /\ rng_pos' = rng_pos + 7 * mc
    /\ UNCHANGED <<events, commits, committed_ctx, batches>>
    /\ GenUnchanged

\* executemany on migrations: one row of the batch
InsertMigration ==
    /\ gen.pc = "computed"
    /\ gen.k < gen.migrations_count
    /\ LET r == gen.batch[gen.k + 1]
       IN IF MigrationsCheck(r)
          THEN /\ gen' = [gen EXCEPT !.k = gen.k + 1,
                                     !.txn.migrations =
                                         Append(gen.txn.migrations, WithId(r, gen.txn.seq_m + 1)),
                                     !.txn.seq_m = gen.txn.seq_m + 1]
               /\ db' = db
          ELSE /\ gen' = Raise("IntegrityError")
               /\ db' = Rollback(db, gen.txn)
    /\ UNCHANGED <<rng_pos, events, commits, committed_ctx, batches>>
    /\ GenUnchanged

\* conn.commit(), then the success message and st.rerun()
Commit ==
    /\ gen.pc = "computed"
    /\ gen.k = gen.migrations_count
    /\ db' = gen.txn
    /\ commits' = commits + 1
    /\ committed_ctx' = [current_month |-> gen.current_month, base_time |-> gen.base_time,
                         schools_count |-> gen.schools_count,
                         migrations_count |-> gen.migrations_count,
                         seq_s |-> gen.snapshot.seq_s, seq_m |-> gen.snapshot.seq_m]
    /\ batches' = batches \cup {gen.txn}
    /\ gen' = [gen EXCEPT !.pc = "idle", !.outcome = "committed"]
    /\ UNCHANGED <<rng_pos, events>>
    /\ GenUnchanged

\* a statement of the transaction fails (sqlite3.Error or any other exception)
Fail ==
    /\ GenInProgress
    /\ gen' = Raise("sqlite3.Error")
    /\ db' = Rollback(db, gen.txn)
    /\ UNCHANGED <<rng_pos, events, commits, committed_ctx, batches>>
    /\ GenUnchanged

(***************************************************************************)
(* The cached reads and the script run that renders the page               *)
(***************************************************************************)
NoCache == [valid |-> FALSE, at |-> 0, df |-> NoRows]

\* st.cache_data(ttl=300): an entry is served while it is younger than the ttl
CacheHit(c, t) == c.valid /\ t - c.at < TTL

fetch_fish_schools(committed, working) == ReadCommitted(committed, working).fish_schools

fetch_migrations_in_txn(committed, working) == working.migrations

fetch_migrations(committed, working) == ReadCommitted(committed, working).migrations

\* the statistics panel before anything is written to it
NoStatistics ==
    [species_counts |-> << >>, avg_speed |-> << >>, dominant_direction |-> << >>,
     error |-> ""]

\* auto is TRUE in a run started by the st.rerun() of the auto-refresh; options
\* is the option list of the species multiselect; after is what the run ended
\* with: "done", "rerun" (st.rerun() called) or "error" (an exception)
RenderIdle ==
    [pc |-> "idle", auto |-> FALSE, fish_schools |-> NoRows, migrations |-> NoRows,
     start_commits |-> 0, read_in_txn |-> FALSE, options |-> {},
     selected_species |-> {}, time_window |-> 0,
     latest_time |-> 0, filtered_migrations |-> NoRows, layers |-> {},
     statistics |-> NoStatistics, after |-> ""]

\* st.session_state and the state of the auto-refresh checkbox
NoSession == [checkbox |-> FALSE, keys |-> {}, auto_refresh |-> FALSE]

RenderUnchanged ==
    UNCHANGED <<now, stream, rng_pos, db, gen, commits, committed_ctx, batches,
                dc_in, dc_out>>

\* a script run starts and loads the fish schools; a run started by st.rerun()
\* finds the widgets as the run before left them
StartRun(auto) ==
    LET fresh == IF auto
                 THEN [RenderIdle EXCEPT !.auto = TRUE, !.options = render.options,
                                         !.selected_species = render.selected_species,
                                         !.time_window = render.time_window]
                 ELSE RenderIdle
    IN /\ IF CacheHit(cache_s, now)
          THEN /\ render' = [fresh EXCEPT !.pc = "schools", !.fish_schools = cache_s.df,
                                          !.start_commits = commits]
               /\ cache_s' = cache_s
          ELSE LET df == fetch_fish_schools(db, gen.txn)
               IN /\ render' = [fresh EXCEPT !.pc = "schools", !.fish_schools = df,
                                             !.start_commits = commits,
                                             !.read_in_txn = TxnOpen]
                  /\ cache_s' = [valid |-> TRUE, at |-> now, df |-> df]
       /\ UNCHANGED cache_m
       /\ RenderUnchanged

\* the user loads the page or changes a widget (the auto-refresh checkbox is
\* left at checkbox): a script run starts, no button pressed
FetchSchools(checkbox) ==
    /\ render.pc \in {"idle", "filtered"}
    /\ events < MaxEvents
    /\ events' = events + 1
    /\ session' = [session EXCEPT !.checkbox = checkbox]
    /\ StartRun(FALSE)

\* time.sleep(1); st.rerun(): the next script run starts by itself
Rerun ==
    /\ render.pc = "filtered"
    /\ render.after = "rerun"
    /\ UNCHANGED <<events, session>>
    /\ StartRun(TRUE)

FetchMigrations ==
    /\ render.pc = "schools"
    /\ IF CacheHit(cache_m, now)
       THEN /\ render' = [render EXCEPT !.pc = "loaded", !.migrations = cache_m.df]
            /\ cache_m' = cache_m
       ELSE LET df == fetch_migrations(db, gen.txn)
            IN /\ render' = [render EXCEPT !.pc = "loaded", !.migrations = df,
                                           !.read_in_txn = render.read_in_txn \/ TxnOpen]
               /\ cache_m' = [valid |-> TRUE, at |-> now, df |-> df]
    /\ UNCHANGED <<cache_s, events, session>>
    /\ RenderUnchanged

\* migrations["species"].unique()
species_list(migrations) == {migrations[j].species : j \in 1..Len(migrations)}

InWindowStrict(timestamp, latest_time) == timestamp > latest_time

\* migrations["timestamp"] >= latest_time
InWindow(timestamp, latest_time) == timestamp >= latest_time

filtered_always_isin(migrations, selected_species, latest_time) ==
    LET both(r) == r.species \in selected_species /\ InWindow(r.timestamp, latest_time)
    IN SelectSeq(migrations, both)

filtered_migrations(migrations, selected_species, latest_time) ==
    LET both(r) == r.species \in selected_species /\ InWindow(r.timestamp, latest_time)
        recent(r) == InWindow(r.timestamp, latest_time)
    IN IF selected_species # {} THEN SelectSeq(migrations, both)
       ELSE SelectSeq(migrations, recent)

\* default=species_list[:2] if len(species_list) >= 2 else species_list
default_selection(migrations) ==
    LET unique == species_list(migrations)
    IN IF Cardinality(unique) <= 2 THEN unique
       ELSE LET first == migrations[1].species
                j == CHOOSE i \in 1..Len(migrations) :
                         /\ migrations[i].species # first
                         /\ \A h \in 1..(i - 1) : migrations[h].species = first
            IN {first, migrations[j].species}

\* the multiselect keeps its value while its options are the same and falls
\* back to its default when they change
kept_selection(migrations, options, selected) ==
    IF species_list(migrations) = options THEN selected ELSE default_selection(migrations)

\* filtered_migrations[filtered_migrations["species"] == species]
species_data(filtered, s) ==
    LET of_species(r) == r.species = s
    IN SelectSeq(filtered, of_species)

with_data_unguarded(filtered, selected) == selected

\* for species in selected_species: ... if not species_data.empty:
with_data(filtered, selected) == {s \in selected : species_data(filtered, s) # NoRows}

\* the species that get a point, a path and an arrow layer on the map
layers(filtered, selected) == with_data(filtered, selected)

\* filtered_migrations["species"].value_counts()
species_counts(filtered) ==
    [s \in species_list(filtered) |-> Len(species_data(filtered, s))]

\* what pandas gives for the mean of no values
NaN == -1

RECURSIVE sum_speed(_)
sum_speed(data) == IF data = NoRows THEN 0 ELSE Head(data).speed + sum_speed(Tail(data))

\* species_data["speed"].mean()
mean_speed(data) == IF data = NoRows THEN NaN ELSE sum_speed(data) \div Len(data)

direction_labels == <<"N-NE", "NE-E", "E-SE", "SE-S", "S-SW", "SW-W", "W-NW", "NW-N">>

\* pd.cut(direction, bins=[0, 45, ..., 360]): the number of the bin, each bin
\* open on the left and closed on the right; 0 when the value is in no bin
cut(direction) ==
    IF direction > 0 /\ direction <= 360 THEN ((direction - 1) \div 45) + 1 ELSE 0

bin_count(data, b) == Cardinality({j \in 1..Len(data) : cut(data[j].direction) = b})

\* direction_bins.mode(): the most frequent bins, the values in no bin left out
mode(data) ==
    LET bins == {cut(data[j].direction) : j \in 1..Len(data)} \ {0}
    IN {b \in bins : \A c \in bins : bin_count(data, c) <= bin_count(data, b)}

\* mode()[0]: the first of the modes, which pandas returns in bin order
first_mode(data) == CHOOSE b \in mode(data) : \A c \in mode(data) : b <= c

\* the statistics panel: counts, average speeds and dominant directions.  A
\* species whose mode() is empty makes mode()[0] raise; the lines of the other
\* species are those that can have been written before.
Statistics(filtered, selected) ==
    LET shown == IF filtered = NoRows THEN {} ELSE with_data(filtered, selected)
        failing == {s \in shown : mode(species_data(filtered, s)) = {}}
    IN [species_counts |-> species_counts(filtered),
        avg_speed |-> [s \in shown |-> mean_speed(species_data(filtered, s))],
        dominant_direction |->
            [s \in shown \ failing |->
                direction_labels[first_mode(species_data(filtered, s))]],
        error |-> IF failing = {} THEN "" ELSE "KeyError"]

RerunAlways(checkbox) == "rerun"

\* if st.session_state.auto_refresh: time.sleep(1); st.rerun()
auto_refresh_step(checkbox) == IF checkbox THEN "rerun" ELSE "done"

\* the rest of the script run: sidebar widgets, filter, map layers, statistics
\* and the auto-refresh option (lines 204-505)
Filter(selected, window) ==
    /\ render.pc = "loaded"
    /\ selected \subseteq species_list(render.migrations)
    /\ render.auto =>
          /\ window = render.time_window
          /\ selected = kept_selection(render.migrations, render.options,
                                       render.selected_species)
    /\ \E filtered \in {filtered_migrations(render.migrations, selected, now - window)} :
       \E stats \in {Statistics(filtered, selected)} :
          /\ render' = [render EXCEPT !.pc = "filtered",
                                      !.options = species_list(render.migrations),
                                      !.selected_species = selected,
                                      !.time_window = window,
                                      !.latest_time = now - window,
                                      !.filtered_migrations = filtered,
                                      !.layers = layers(filtered, selected),
                                      !.statistics = stats,
                                      !.after = IF stats.error = ""
                                                THEN auto_refresh_step(session.checkbox)
                                                ELSE "error"]
          /\ session' = IF stats.error = ""
                        THEN [session EXCEPT !.keys = {"auto_refresh"},
                                             !.auto_refresh = session.checkbox]
                        ELSE session
    /\ UNCHANGED <<cache_s, cache_m, events>>
    /\ RenderUnchanged

\* the wall clock advances
Tick(d) ==
    /\ events < MaxEvents
    /\ events' = events + 1
    /\ now' = now + d
    /\ UNCHANGED <<stream, rng_pos, db, gen, commits, committed_ctx, batches,
                   cache_s, cache_m, render, session, dc_in, dc_out>>

(***************************************************************************)
(* direction_to_cardinal.  Its argument is in quarter degrees, so that the *)
(* halves of direction / 22.5 are met: 22.5 degrees are CardinalStep       *)
(* quarters and a full turn is FullTurn quarters.                          *)
(***************************************************************************)
cardinals == <<"N", "NNE", "NE", "ENE", "E", "ESE", "SE", "SSE",
               "S", "SSW", "SW", "WSW", "W", "WNW", "NW", "NNW">>

RoundTowardZero(num, den) == IF num >= 0 THEN num \div den ELSE 0 - ((0 - num) \div den)

\* Python's round(): to the nearest integer, halves to the even one
Round(num, den) ==
    LET n == num \div den
        r == num % den
    IN IF 2 * r < den THEN n
       ELSE IF 2 * r > den THEN n + 1
       ELSE IF n % 2 = 0 THEN n ELSE n + 1

direction_to_cardinal(quarters) ==
    LET idx == Round(quarters, CardinalStep) % 16
    IN cardinals[idx + 1]

(***************************************************************************)
(* Specification of the page                                               *)
(***************************************************************************)
Init ==
    /\ now \in InitNows
    /\ events = 0
    /\ stream \in [a : 0..(StreamMod - 1), b : 0..(StreamMod - 1)]
    /\ rng_pos = 0
    /\ db = EmptyDb
    /\ gen = GenIdle
    /\ commits = 0
    /\ committed_ctx = NoCall
    /\ batches = {EmptyDb}
    /\ cache_s = NoCache
    /\ cache_m = NoCache
    /\ render = RenderIdle
    /\ session = NoSession
    /\ dc_in = 0
    /\ dc_out = "?"

Next ==
    \/ \E counts \in CallCounts : ButtonClick(counts[1], counts[2])
    \/ DeleteSchools
    \/ DeleteMigrations
    \/ InsertSchools
    \/ ComputeMigrations
    \/ InsertMigration
    \/ Commit
    \/ Fail
    \/ FetchSchools(session.checkbox)
    \/ FetchMigrations
    \/ \E selected \in SUBSET species_list(render.migrations), window \in TimeWindows :
           Filter(selected, window)
    \/ \E d \in TickSteps : Tick(d)

\* the streams the page is run with
PageStreams == {[a |-> 1, b |-> 0], [a |-> 2, b |-> 3], [a |-> 3, b |-> 4]}

InitPage == Init /\ stream \in PageStreams

Spec == InitPage /\ [][Next]_vars

(***************************************************************************)
(* Specification of the generator alone, under every stream of the family  *)
(***************************************************************************)
NextGen ==
    \/ \E counts \in CallCounts : ButtonClick(counts[1], counts[2])
    \/ DeleteSchools
    \/ DeleteMigrations
    \/ InsertSchools
    \/ ComputeMigrations
    \/ InsertMigration
    \/ Commit
    \/ Fail
    \/ \E d \in TickSteps : Tick(d)

SpecGen == Init /\ [][NextGen]_vars

(***************************************************************************)
(* Specification of the page with the auto-refresh checkbox in use, within *)
(* one minute of the clock (the polling period is one second).  The run    *)
(* that st.rerun() starts needs no user, so it is not counted in events;   *)
(* time.sleep(1) returns and st.rerun() is called unconditionally, so a    *)
(* pending rerun does start (weak fairness of Rerun).                      *)
(***************************************************************************)
NextRefresh ==
    \/ \E counts \in CallCounts : ButtonClick(counts[1], counts[2])
    \/ DeleteSchools
    \/ DeleteMigrations
    \/ InsertSchools
    \/ ComputeMigrations
    \/ InsertMigration
    \/ Commit
    \/ Fail
    \/ \E checkbox \in BOOLEAN : FetchSchools(checkbox)
    \/ Rerun
    \/ FetchMigrations
    \/ \E selected \in SUBSET species_list(render.migrations), window \in TimeWindows :
           Filter(selected, window)

RefreshStreams == {[a |-> 3, b |-> 4]}

InitRefresh == Init /\ stream \in RefreshStreams

SpecRefresh == InitRefresh /\ [][NextRefresh]_vars /\ WF_vars(Rerun)

(***************************************************************************)
(* Specification of the generator called with any counts, valid or not     *)
(***************************************************************************)
ArgCounts == CallCounts \cup {<<0, 0>>, <<0, 1>>, <<1, 0>>, <<0 - 1, 1>>, <<1, 0 - 1>>}

NextArgs ==
    \/ \E counts \in ArgCounts : ButtonClick(counts[1], counts[2])
    \/ DeleteSchools
    \/ DeleteMigrations
    \/ InsertSchools
    \/ ComputeMigrations
    \/ InsertMigration
    \/ Commit
    \/ Fail

SpecArgs == InitPage /\ [][NextArgs]_vars

(***************************************************************************)
(* Specification of direction_to_cardinal alone                            *)
(***************************************************************************)
CardinalInputs == (0 - MaxTurns * FullTurn)..(MaxTurns * FullTurn)

InitCardinal ==
    /\ now = 0
    /\ events = 0
    /\ stream = [a |-> 0, b |-> 0]
    /\ rng_pos = 0
    /\ db = EmptyDb
    /\ gen = GenIdle
    /\ commits = 0
    /\ committed_ctx = NoCall
    /\ batches = {EmptyDb}
    /\ cache_s = NoCache
    /\ cache_m = NoCache
    /\ render = RenderIdle
    /\ session = NoSession
    /\ dc_in \in CardinalInputs
    /\ dc_out = "?"

\* the call direction_to_cardinal(direction)
Cardinal ==
    /\ events = 0
    /\ events' = 1
    /\ dc_out' = direction_to_cardinal(dc_in)
    /\ UNCHANGED <<now, stream, rng_pos, db, gen, commits, committed_ctx, batches,
                   cache_s, cache_m, render, session, dc_in>>

NextCardinal == Cardinal

SpecCardinal == InitCardinal /\ [][NextCardinal]_vars

(***************************************************************************)
(* Properties                                                              *)
(***************************************************************************)
Rows(seq) == {seq[j] : j \in 1..Len(seq)}

\* the previous batch was generated with the counts of the call in progress
SameCounts ==
    /\ gen.pc = "computed"
    /\ Len(gen.snapshot.fish_schools) = gen.schools_count
    /\ Len(gen.snapshot.migrations) = gen.migrations_count

\* C1: a call that fails after it began its transaction leaves fish_schools and
\* migrations exactly as they were before the call, and the error is raised to
\* the caller.
C1_FailedCallRestoresStore ==
    gen.outcome = "raised" => (db = gen.snapshot /\ gen.pc = "idle" /\ gen.error_shown)

\* a call failed part-way through the migrations insert, over an earlier batch
C1_Witness ==
    /\ gen.outcome = "raised"
    /\ gen.k >= 1 /\ gen.k < gen.migrations_count
    /\ Len(gen.snapshot.migrations) > 0
    /\ Len(db.migrations) > 0

\* C2: a read of fish_schools or migrations on another connection returns all
\* rows of the last committed batch: the previous one while a call is in
\* progress, never an emptied or partly written table.
C2_ReadersSeeWholeBatch ==
    [][LET committed == IF GenInProgress THEN gen.snapshot ELSE db
       IN /\ (render'.pc = "schools" /\ render.pc # "schools" /\ ~CacheHit(cache_s, now))
                => render'.fish_schools = committed.fish_schools
          /\ (render'.pc = "loaded" /\ render.pc = "schools" /\ ~CacheHit(cache_m, now))
                => render'.migrations = committed.migrations]_vars

\* both tables were read while the new batch was partly written over an old one
C2_Witness ==
    /\ gen.pc = "computed" /\ gen.k >= 1
    /\ render.pc = "loaded" /\ render.read_in_txn
    /\ Len(db.migrations) > 0
    /\ render.migrations = db.migrations
    /\ render.fish_schools = db.fish_schools
    /\ gen.txn.fish_schools # db.fish_schools

\* C3: a render that starts after the last commit works on the rows of that
\* batch.
C3_RenderUsesLatestBatch ==
    (render.pc \in {"loaded", "filtered"} /\ render.start_commits = commits)
        => (render.fish_schools = db.fish_schools /\ render.migrations = db.migrations)

\* C4 as stated: two calls with the same counts produce identical batches,
\* whatever the time and month of each call.
C4_SameBatchWhateverTheClock ==
    SameCounts => gen.batch = Contents(gen.snapshot.migrations)

\* C4 amended: two calls with the same counts draw the same schools, species,
\* origins, speeds and timestamp offsets; directions and targets agree when
\* both calls run in the same season, timestamps when both capture the same
\* base time.
C4_SameDrawsSameBatch ==
    SameCounts =>
        LET old == gen.snapshot.migrations
            new == gen.batch
            sameSeason == SeasonMode(gen.current_month) = SeasonMode(committed_ctx.current_month)
        IN /\ Contents(gen.txn.fish_schools) = Contents(gen.snapshot.fish_schools)
           /\ \A j \in 1..Len(new) :
                /\ new[j].species = old[j].species
                /\ new[j].latitude = old[j].latitude
                /\ new[j].longitude = old[j].longitude
                /\ new[j].speed = old[j].speed
                /\ gen.base_time - new[j].timestamp
                       = committed_ctx.base_time - old[j].timestamp
                /\ sameSeason =>
                       /\ new[j].direction = old[j].direction
                       /\ new[j].target_latitude = old[j].target_latitude
                       /\ new[j].target_longitude = old[j].target_longitude

\* the second call runs in another season and at another time than the first
C4_Witness ==
    /\ SameCounts
    /\ gen.migrations_count >= 2
    /\ gen.base_time # committed_ctx.base_time
    /\ SeasonMode(gen.current_month) # SeasonMode(committed_ctx.current_month)
    /\ gen.batch # Contents(gen.snapshot.migrations)

\* the south-east monsoon range of a species, as its start and end angle
SoutheastRange(s) ==
    IF s \in {"Black Marlin", "Sailfish", "Wahoo"} THEN <<330, 30>>
    ELSE IF s \in {"Yellowfin Tuna", "Kingfish"} THEN <<300, 60>>
    ELSE <<270, 90>>

\* C5: in the south-east monsoon the heading drawn before the jitter lies in
\* the range that wraps past 360: in [start, 360) or in [0, end].
C5_HeadingInWrappedRange ==
    (gen.pc = "computed" /\ is_southeast_monsoon(gen.current_month)) =>
        \A j \in 1..Len(gen.batch) :
            LET range == SoutheastRange(gen.batch[j].species)
                h == gen.base_dirs[j]
            IN (range[1] <= h /\ h < 360) \/ (0 <= h /\ h <= range[2])

C7_TargetFollowsCompass ==
    \A r \in Rows(db.migrations) :
        /\ r.target_latitude - r.latitude = Scale(delta(r.speed), Cos1000(r.direction))
        /\ r.target_longitude - r.longitude = Scale(delta(r.speed), Sin1000(r.direction))

\* the index of a label in cardinals, from 0
CardinalIndex(label) == CHOOSE i \in 0..15 : cardinals[i + 1] = label

\* C8: direction_to_cardinal returns the label of round(direction / 22.5) mod 16,
\* the nearest of the 16 labels (the even one of two equally near), and the same
\* label for direction + 360 k, for every integer k.
C8_CardinalPeriodic ==
    events = 1 =>
    /\ dc_out \in Rows(cardinals)
    /\ LET idx == CardinalIndex(dc_out)
           off == (dc_in - CardinalStep * idx) % FullTurn
       IN \/ 2 * off < CardinalStep
          \/ 2 * (FullTurn - off) < CardinalStep
          \/ (2 * off = CardinalStep /\ idx % 2 = 0)
          \/ (2 * (FullTurn - off) = CardinalStep /\ idx % 2 = 0)
    /\ \A k \in (0 - MaxTurns)..MaxTurns :
           direction_to_cardinal(dc_in + k * FullTurn) = dc_out

\* a negative direction half way between two labels
C8_Witness ==
    /\ events = 1
    /\ dc_in < 0
    /\ 2 * (dc_in % CardinalStep) = CardinalStep
    /\ dc_out = "NW"

\* the stored rows of the render that pass the time window
RecentIds == {r.id : r \in {x \in Rows(render.migrations) : x.timestamp >= render.latest_time}}

\* C9: with an empty selection the filter keeps exactly the records that pass
\* the time predicate, as many as without a species filter; with a non-empty
\* selection exactly the records of a selected species that pass it.
C9_EmptySelectionIsNoFilter ==
    render.pc = "filtered" =>
        LET kept == {r.id : r \in Rows(render.filtered_migrations)}
            chosen == {r.id : r \in {x \in Rows(render.migrations) :
                                        /\ x.species \in render.selected_species
                                        /\ x.timestamp >= render.latest_time}}
        IN /\ Rows(render.filtered_migrations) \subseteq Rows(render.migrations)
           /\ Len(render.filtered_migrations) = Cardinality(kept)
           /\ render.selected_species = {} => kept = RecentIds
           /\ render.selected_species # {} => kept = chosen

\* nothing is selected and records of two species are kept
C9_Witness ==
    /\ render.pc = "filtered"
    /\ render.selected_species = {}
    /\ Cardinality(species_list(render.filtered_migrations)) >= 2

\* C10: the filter step keeps a record that passes the species filter if and
\* only if its timestamp is at or after now minus the selected window of 10 to
\* 120 minutes.
C10_TimeWindowInclusive ==
    [][(render.pc = "loaded" /\ render'.pc = "filtered") =>
          /\ render'.time_window >= 10 /\ render'.time_window <= 120
          /\ \A r \in Rows(render.migrations) :
                (r \in Rows(render'.filtered_migrations)) <=>
                    /\ r.timestamp >= now - render'.time_window
                    /\ (render'.selected_species = {} \/ r.species \in render'.selected_species)]_vars

\* a record at the cutoff is kept and an older one is dropped
C10_Witness ==
    /\ render.pc = "filtered"
    /\ \E r \in Rows(render.filtered_migrations) : r.timestamp = render.latest_time
    /\ \E r \in Rows(render.migrations) :
          /\ r.timestamp < render.latest_time
          /\ r \notin Rows(render.filtered_migrations)

\* C13: a call of generate_east_african_data with schools_count <= 0 or
\* migrations_count <= 0 ends with an error and the store as it was before the
\* call; it never commits.
C13_InvalidCountsRejected ==
    (/\ gen.schools_count <= 0 \/ gen.migrations_count <= 0
     /\ gen.pc = "idle"
     /\ gen.outcome # "none")
    => (gen.outcome = "raised" /\ db = gen.snapshot)

\* C14: every timestamp of a batch is the one base time of its call minus a
\* whole number of minutes in 0..119: none is later than the base time and any
\* two differ by less than 120 minutes.
C14_TimestampsFromOneBaseTime ==
    /\ gen.pc = "computed" =>
          /\ \A j \in 1..Len(gen.batch) :
                gen.batch[j].timestamp \in (gen.base_time - 119)..gen.base_time
          /\ \A i, j \in 1..Len(gen.batch) :
                gen.batch[i].timestamp - gen.batch[j].timestamp < 120
    /\ \A r \in Rows(db.migrations) :
          r.timestamp \in (committed_ctx.base_time - 119)..committed_ctx.base_time
    /\ \A r, q \in Rows(db.migrations) : r.timestamp - q.timestamp < 120

C14_Witness ==
    /\ commits > 0
    /\ \E r, q \in Rows(db.migrations) :
          /\ r.timestamp = committed_ctx.base_time
          /\ q.timestamp < committed_ctx.base_time - 100

\* C15: every generated record lies inside the bounds of the store, so no
\* insert is rejected by a CHECK constraint: schools in the box -15..5 by 39..45
\* with confidence 50..100, migrations with their origin in the same box, a
\* speed >= 0 and a target at most speed/20 degrees from the origin, inside
\* -90..90 by -180..180.
C15_GeneratedRecordsWithinBounds ==
    /\ gen.error # "IntegrityError"
    /\ \A r \in Rows(gen.txn.fish_schools) :
          /\ r.lat \in -15000..5000
          /\ r.lon \in 39000..45000
          /\ r.confidence \in 50..100
          /\ SchoolsCheck(r)
    /\ \A j \in 1..Len(gen.batch) :
          LET r == gen.batch[j]
          IN /\ r.latitude \in -15000..5000
             /\ r.longitude \in 39000..45000
             /\ r.speed >= 0
             /\ 2 * (r.target_latitude - r.latitude) \in (0 - r.speed)..r.speed
             /\ 2 * (r.target_longitude - r.longitude) \in (0 - r.speed)..r.speed
             /\ r.target_latitude \in -90000..90000
             /\ r.target_longitude \in -180000..180000
             /\ MigrationsCheck(r)

C15_Witness ==
    /\ gen.outcome = "committed"
    /\ \E r \in Rows(db.fish_schools) : r.lat = -15000 /\ r.lon = 39000 /\ r.confidence = 50
    /\ \E r \in Rows(db.migrations) : r.target_latitude # r.latitude

\* C16: after any sequence of successful and failed calls each table holds
\* exactly the rows of the last successful call, schools_count and
\* migrations_count of them and none of an earlier batch, and no step changes
\* a stored migration row in place.
LastBatchOnly ==
    /\ Len(db.fish_schools) = committed_ctx.schools_count
    /\ Len(db.migrations) = committed_ctx.migrations_count
    /\ \A r \in Rows(db.fish_schools) : r.id > committed_ctx.seq_s
    /\ \A r \in Rows(db.migrations) : r.id > committed_ctx.seq_m

NoUpdateInPlace ==
    \A r \in Rows(db.migrations) : \A q \in Rows(db'.migrations) : r.id = q.id => r = q

C16_StoreHoldsLastBatchOnly == []LastBatchOnly /\ [][NoUpdateInPlace]_vars

C16_Witness ==
    /\ commits = 2
    /\ gen.outcome = "raised"
    /\ gen.k >= 1
    /\ committed_ctx.seq_m > 0
    /\ Len(db.migrations) = committed_ctx.migrations_count

\* the rows of species s that survive the filters of the finished run
Surviving(s) == species_data(render.filtered_migrations, s)

Bucket(h) == IF h <= 45 THEN 1 ELSE ((h - 1) \div 45) + 1

BucketCount(data, b) == Cardinality({j \in 1..Len(data) : Bucket(data[j].direction) = b})

MostFrequentBucket(data) ==
    CHOOSE b \in 1..8 :
        /\ \A c \in 1..8 : BucketCount(data, c) <= BucketCount(data, b)
        /\ \A c \in 1..(b - 1) : BucketCount(data, c) < BucketCount(data, b)

\* C12: for every selected species with surviving records the dominant
\* direction reported is their most frequent direction bucket, the lowest one
\* on a tie; a single record gives its own bucket, heading 0 included.
C12_DominantIsMostFrequentBucket ==
    render.pc = "filtered" =>
        \A s \in render.selected_species :
            Surviving(s) # NoRows =>
                /\ s \in DOMAIN render.statistics.dominant_direction
                /\ render.statistics.dominant_direction[s]
                       = direction_labels[MostFrequentBucket(Surviving(s))]

\* C18: every record of filtered_migrations is drawn in a map layer of its
\* species, and its species has an average-speed and a dominant-direction
\* line, whatever the species selection, the empty one included.
C18_EveryFilteredRecordShown ==
    (render.pc = "filtered" /\ render.after # "error") =>
        \A j \in 1..Len(render.filtered_migrations) :
            LET s == render.filtered_migrations[j].species
            IN /\ s \in render.layers
               /\ s \in DOMAIN render.statistics.avg_speed
               /\ s \in DOMAIN render.statistics.dominant_direction

\* C19 as stated: the fish schools and the migrations one render uses belong
\* to the same committed batch.
C19_OneBatchPerRender ==
    render.pc \in {"loaded", "filtered"} =>
        \E b \in batches : /\ render.fish_schools = b.fish_schools
                           /\ render.migrations = b.migrations

\* C19 as amended: each of the two data frames of a render holds all the rows
\* that one committed batch (or the empty store) has in its table; the two
\* frames need not come from the same batch.
C19_EachFrameFromOneBatch ==
    /\ render.pc \in {"schools", "loaded", "filtered"} =>
          \E b \in batches : render.fish_schools = b.fish_schools
    /\ render.pc \in {"loaded", "filtered"} =>
          \E b \in batches : render.migrations = b.migrations

C19_Witness ==
    /\ render.pc = "filtered"
    /\ render.migrations # NoRows
    /\ ~ \E b \in batches : /\ render.fish_schools = b.fish_schools
                            /\ render.migrations = b.migrations

\* a finished script run whose last statement was st.rerun()
RerunPending == render.pc = "filtered" /\ render.after = "rerun"

\* at the end of a completed run the session flag is the checkbox value of
\* that run, and the run ends in st.rerun() exactly when the box is ticked
FlagFollowsCheckbox ==
    (render.pc = "filtered" /\ render.after # "error") =>
        /\ "auto_refresh" \in session.keys
        /\ session.auto_refresh = session.checkbox
        /\ render.after = (IF session.checkbox THEN "rerun" ELSE "done")

\* after a completed run with the box unticked only a user event starts a run
IdleUntilInteraction ==
    (render.pc = "filtered" /\ render.after = "done" /\ render' # render) =>
        (events' = events + 1 /\ ~render'.auto)

====
